---- MODULE Spec2Model ----
(***************************************************************************)
(* Entry-point resolution of librustc (src/librustc/middle/entry.rs):      *)
(* find_entry_point drives one pass of find_item over the items of the     *)
(* crate, entry_point_type classifies each item, configure_main selects    *)
(* the entry function and writes it to the session.                        *)
(***************************************************************************)
EXTENDS Integers, Sequences, FiniteSets, TLC

\* ---------------------------------------------------------------- bounds
MaxItems == 3        \* items delivered by visit_all_items
MaxList  == 2        \* path-list items of one `use` declaration

\* ------------------------------------------------------- Option<T> values
None == <<>>
Some(x) == <<x>>
is_some(o) == o # None
is_none(o) == o = None
unwrap(o) == o[1]

\* ------------------------------------------------------------ the inputs
Names == {"main", "foo"}

Renames == {None} \cup {Some(n) : n \in Names}

RenameLists == UNION {[1..k -> Renames] : k \in 0..MaxList}

NoViewPath == [tag |-> "none", n |-> "", v |-> <<>>]

ViewPaths ==
    {[tag |-> "ViewPathSimple", n |-> n, v |-> <<>>] : n \in Names}
    \cup {[tag |-> "ViewPathGlob", n |-> "", v |-> <<>>]}
    \cup {[tag |-> "ViewPathList", n |-> "", v |-> l] : l \in RenameLists}

\* An item as entry_point_type reads it: its node, the presence of the
\* `start` and `main` attributes, its name, and the view path of a `use`.
Items ==
    {[node |-> "ItemFn", start |-> s, main |-> m, name |-> n, vp |-> NoViewPath] :
        s \in BOOLEAN, m \in BOOLEAN, n \in Names}
    \cup {[node |-> "ItemUse", start |-> s, main |-> m, name |-> "", vp |-> p] :
        s \in BOOLEAN, m \in BOOLEAN, p \in ViewPaths}
    \cup {[node |-> "ItemStatic", start |-> s, main |-> m, name |-> n, vp |-> NoViewPath] :
        s \in BOOLEAN, m \in BOOLEAN, n \in Names}

CrateTypeLists ==
    {<<>>, <<"CrateTypeRlib">>, <<"CrateTypeExecutable">>,
     <<"CrateTypeRlib", "CrateTypeExecutable">>}

NodeIds == 1..MaxItems

span_of(id) == [at |-> id]

local_def_id(id) == [index |-> id]

DefIds == {local_def_id(id) : id \in NodeIds}

\* A session the pass has not touched, and one that already carries an entry.
PresetEntry == <<Some(<<0, span_of(0)>>), Some("EntryMain")>>

InitialEntries == {<<None, None>>, PresetEntry}

VARIABLES
    crate_types,       \* session.crate_types
    no_main,           \* the crate carries #![no_main]
    feature_enabled,   \* the session enables re-exported entry points (never read here)
    entry_fn,          \* session.entry_fn
    entry_type,        \* session.entry_type
    entry0,            \* <<entry_fn, entry_type>> when find_entry_point was called
    defined_as_main,   \* the defined_as_main argument / ctxt.defined_as_main
    main_fn,           \* ctxt.main_fn
    imported_main_fn,  \* ctxt.imported_main_fn
    attr_main_fn,      \* ctxt.attr_main_fn
    start_fn,          \* ctxt.start_fn
    non_main_fns,      \* ctxt.non_main_fns
    diags,             \* the errors emitted to the session, in order
    visited,           \* the items find_item has processed, in order
    ept_args,          \* the arguments of a call of entry_point_type
    ept_result,        \* what that call returned
    pc                 \* position in find_entry_point

vars == <<crate_types, no_main, feature_enabled, entry_fn, entry_type, entry0, defined_as_main,
          main_fn, imported_main_fn, attr_main_fn, start_fn, non_main_fns,
          diags, visited, ept_args, ept_result, pc>>

ctxt_vars == <<main_fn, imported_main_fn, attr_main_fn, start_fn, non_main_fns>>

\* ------------------------------------------------------------ classifier
\* imported_as_main looking at the first item of a list only
imported_as_main_FirstOnly(vp) ==
    CASE vp.tag = "ViewPathSimple" -> vp.n = "main"
      [] vp.tag = "ViewPathGlob" -> FALSE
      [] vp.tag = "ViewPathList" ->
            Len(vp.v) > 0 /\ is_some(vp.v[1]) /\ unwrap(vp.v[1]) = "main"
      [] OTHER -> FALSE

imported_as_main(vp) ==
    CASE vp.tag = "ViewPathSimple" -> vp.n = "main"
      [] vp.tag = "ViewPathGlob" -> FALSE
      [] vp.tag = "ViewPathList" ->
            \E i \in 1..Len(vp.v) : is_some(vp.v[i]) /\ unwrap(vp.v[i]) = "main"
      [] OTHER -> FALSE

\* entry_point_type testing the main attribute before the start attribute
entry_point_type_MainAttrFirst(item, at_root, dam) ==
    CASE item.node = "ItemFn" ->
            IF item.main THEN "MainAttr"
            ELSE IF item.start THEN "Start"
            ELSE IF item.name = "main" THEN
                IF at_root THEN "MainNamed"
                ELSE IF dam THEN "ImportedMain"
                ELSE "OtherMain"
            ELSE IF dam THEN "ImportedMain"
            ELSE "None"
      [] item.node = "ItemUse" /\ imported_as_main(item.vp) -> "ImportedMain"
      [] OTHER -> "None"

\* entry_point_type without the fallback of line 112
entry_point_type_NoFallback(item, at_root, dam) ==
    CASE item.node = "ItemFn" ->
            IF item.start THEN "Start"
            ELSE IF item.main THEN "MainAttr"
            ELSE IF item.name = "main" THEN
                IF at_root THEN "MainNamed"
                ELSE IF dam THEN "ImportedMain"
                ELSE "OtherMain"
            ELSE "None"
      [] item.node = "ItemUse" /\ imported_as_main(item.vp) -> "ImportedMain"
      [] OTHER -> "None"

\* entry_point_type asking defined_as_main before the name and at_root
entry_point_type_ReexportFirst(item, at_root, dam) ==
    CASE item.node = "ItemFn" ->
            IF item.start THEN "Start"
            ELSE IF item.main THEN "MainAttr"
            ELSE IF dam THEN "ImportedMain"
            ELSE IF item.name = "main" THEN
                IF at_root THEN "MainNamed" ELSE "OtherMain"
            ELSE "None"
      [] item.node = "ItemUse" /\ imported_as_main(item.vp) -> "ImportedMain"
      [] OTHER -> "None"

entry_point_type(item, at_root, dam) ==
    CASE item.node = "ItemFn" ->
            IF item.start THEN "Start"
            ELSE IF item.main THEN "MainAttr"
            ELSE IF item.name = "main" THEN
                IF at_root THEN "MainNamed"
                ELSE IF dam THEN "ImportedMain"
                ELSE "OtherMain"
            ELSE IF dam THEN "ImportedMain"
            ELSE "None"
      [] item.node = "ItemUse" /\ imported_as_main(item.vp) -> "ImportedMain"
      [] OTHER -> "None"

\* ----------------------------------------------------------- diagnostics
Label(sp, text) == [span |-> sp, text |-> text]

E0136(item_span) ==
    [code |-> "E0136", span |-> Some(item_span), labels |-> <<>>, notes |-> <<>>]

E0137(item_span, first_span) ==
    [code |-> "E0137", span |-> Some(item_span),
     labels |-> << Label(item_span, "additional #[main] function"),
                   Label(first_span, "first #[main] function") >>,
     notes |-> <<>>]

E0138(item_span, first_span) ==
    [code |-> "E0138", span |-> Some(item_span),
     labels |-> << Label(first_span, "previous start function here"),
                   Label(item_span, "multiple start functions") >>,
     notes |-> <<>>]

Note(sp, msg) == [span |-> sp, msg |-> msg]

SpanNotes(fns) ==
    [i \in 1..Len(fns) |-> Note(Some(fns[i][2]), "here is a function named 'main'")]

NotFoundErr(fns) ==
    [code |-> "main function not found", span |-> None, labels |-> <<>>,
     notes |-> IF fns # <<>>
               THEN << Note(None, "the main function must be defined at the crate level") >>
                    \o SpanNotes(fns)
               ELSE <<>>]

\* ------------------------------------------------------------------ Init
\* the session and the arguments find_entry_point is called with
InitSession ==
    /\ crate_types \in CrateTypeLists
    /\ no_main \in BOOLEAN
    /\ entry0 \in InitialEntries
    /\ entry_fn = entry0[1]
    /\ entry_type = entry0[2]
    /\ defined_as_main \in SUBSET DefIds
    /\ main_fn = None
    /\ imported_main_fn = None
    /\ attr_main_fn = None
    /\ start_fn = None
    /\ non_main_fns = <<>>
    /\ diags = <<>>
    /\ visited = <<>>
    /\ ept_args = None
    /\ ept_result = None
    /\ pc = "start"

\* No step reads feature_enabled; Spec keeps the default of a session, the
\* capability off, and SpecGate runs the same steps with either value.
Init == InitSession /\ feature_enabled = FALSE

InitGate == InitSession /\ feature_enabled \in BOOLEAN

\* ------------------------------------------------------ find_entry_point
\* any_exe taking every crate type for an executable
any_exe_AnyType(types) == Len(types) > 0

any_exe(types) == \E i \in 1..Len(types) : types[i] = "CrateTypeExecutable"

\* lines 62-68: no executable crate type, nothing to find
FindEntryPointNotExe ==
    /\ pc = "start"
    /\ ~any_exe(crate_types)
    /\ pc' = "done"
    /\ UNCHANGED <<crate_types, no_main, feature_enabled,
                   entry_fn, entry_type, entry0, defined_as_main,
                   main_fn, imported_main_fn, attr_main_fn, start_fn, non_main_fns,
                   diags, visited, ept_args, ept_result>>

\* the no_main branch writing EntryMain
no_main_entry_type_Main == Some("EntryMain")

no_main_entry_type == Some("EntryNone")

\* lines 70-74: #![no_main]
FindEntryPointNoMain ==
    /\ pc = "start"
    /\ any_exe(crate_types)
    /\ no_main
    /\ entry_type' = no_main_entry_type
    /\ pc' = "done"
    /\ UNCHANGED <<crate_types, no_main, feature_enabled,
                   entry_fn, entry0, defined_as_main,
                   main_fn, imported_main_fn, attr_main_fn, start_fn, non_main_fns,
                   diags, visited, ept_args, ept_result>>

\* lines 78-87: the fresh EntryContext
FindEntryPointBegin ==
    /\ pc = "start"
    /\ any_exe(crate_types)
    /\ ~no_main
    /\ main_fn' = None
    /\ imported_main_fn' = None
    /\ attr_main_fn' = None
    /\ start_fn' = None
    /\ non_main_fns' = <<>>
    /\ pc' = "visit"
    /\ UNCHANGED <<crate_types, no_main, feature_enabled,
                   entry_fn, entry_type, entry0, defined_as_main,
                   diags, visited, ept_args, ept_result>>

\* ------------------------------------------------------------- find_item
\* the MainNamed arm overwriting the slot after the conflict
MainNamedArm_Overwrite(id, sp) ==
    IF is_none(main_fn)
    THEN /\ main_fn' = Some(<<id, sp>>)
         /\ UNCHANGED diags
    ELSE /\ diags' = Append(diags, E0136(sp))
         /\ main_fn' = Some(<<id, sp>>)

MainNamedArm(id, sp) ==
    IF is_none(main_fn)
    THEN /\ main_fn' = Some(<<id, sp>>)
         /\ UNCHANGED diags
    ELSE /\ diags' = Append(diags, E0136(sp))
         /\ UNCHANGED main_fn

\* the OtherMain arm inserting at the front
OtherMainArm_Prepend(id, sp) ==
    non_main_fns' = <<<<id, sp>>>> \o non_main_fns

OtherMainArm(id, sp) ==
    non_main_fns' = Append(non_main_fns, <<id, sp>>)

MainAttrArm(id, sp) ==
    IF is_none(attr_main_fn)
    THEN /\ attr_main_fn' = Some(<<id, sp>>)
         /\ UNCHANGED diags
    ELSE /\ diags' = Append(diags, E0137(sp, unwrap(attr_main_fn)[2]))
         /\ UNCHANGED attr_main_fn

StartArm(id, sp) ==
    IF is_none(start_fn)
    THEN /\ start_fn' = Some(<<id, sp>>)
         /\ UNCHANGED diags
    ELSE /\ diags' = Append(diags, E0138(sp, unwrap(start_fn)[2]))
         /\ UNCHANGED start_fn

ImportedMainArm(id, sp) ==
    imported_main_fn' = Some(<<id, sp>>)

find_item(item, id, at_root) ==
    LET sp == span_of(id)
        kind == entry_point_type(item, at_root, local_def_id(id) \in defined_as_main)
    IN  /\ CASE kind = "MainNamed" ->
                    /\ MainNamedArm(id, sp)
                    /\ UNCHANGED <<imported_main_fn, attr_main_fn, start_fn, non_main_fns>>
             [] kind = "OtherMain" ->
                    /\ OtherMainArm(id, sp)
                    /\ UNCHANGED <<main_fn, imported_main_fn, attr_main_fn, start_fn, diags>>
             [] kind = "MainAttr" ->
                    /\ MainAttrArm(id, sp)
                    /\ UNCHANGED <<main_fn, imported_main_fn, start_fn, non_main_fns>>
             [] kind = "Start" ->
                    /\ StartArm(id, sp)
                    /\ UNCHANGED <<main_fn, imported_main_fn, attr_main_fn, non_main_fns>>
             [] kind = "ImportedMain" ->
                    /\ ImportedMainArm(id, sp)
                    /\ UNCHANGED <<main_fn, attr_main_fn, start_fn, non_main_fns, diags>>
             [] OTHER ->
                    UNCHANGED <<ctxt_vars, diags>>
        /\ visited' = Append(visited, [id |-> id, span |-> sp, kind |-> kind])

\* the traversal giving up after the first diagnostic
VisitItem_StopOnConflict ==
    /\ pc = "visit"
    /\ diags = <<>>
    /\ Len(visited) < MaxItems
    /\ \E item \in Items, at_root \in BOOLEAN :
           find_item(item, Len(visited) + 1, at_root)
    /\ UNCHANGED <<crate_types, no_main, feature_enabled,
                   entry_fn, entry_type, entry0, defined_as_main,
                   ept_args, ept_result, pc>>

\* lines 51-56, one step of visit_all_items (line 89)
VisitItem ==
    /\ pc = "visit"
    /\ Len(visited) < MaxItems
    /\ \E item \in Items, at_root \in BOOLEAN :
           find_item(item, Len(visited) + 1, at_root)
    /\ UNCHANGED <<crate_types, no_main, feature_enabled,
                   entry_fn, entry_type, entry0, defined_as_main,
                   ept_args, ept_result, pc>>

\* -------------------------------------------------------- configure_main
\* the selection testing main_fn before attr_main_fn
SelectedEntry_NamedFirst ==
    IF is_some(start_fn) THEN Some(<<start_fn, "EntryStart">>)
    ELSE IF is_some(main_fn) THEN Some(<<main_fn, "EntryMain">>)
    ELSE IF is_some(attr_main_fn) THEN Some(<<attr_main_fn, "EntryMain">>)
    ELSE IF is_some(imported_main_fn) THEN Some(<<imported_main_fn, "EntryMain">>)
    ELSE None

\* the selection without the imported_main_fn branch
SelectedEntry_NoImported ==
    IF is_some(start_fn) THEN Some(<<start_fn, "EntryStart">>)
    ELSE IF is_some(attr_main_fn) THEN Some(<<attr_main_fn, "EntryMain">>)
    ELSE IF is_some(main_fn) THEN Some(<<main_fn, "EntryMain">>)
    ELSE None

\* the selection giving up imported_main_fn when there are hints
SelectedEntry_HintsBeforeImported ==
    IF is_some(start_fn) THEN Some(<<start_fn, "EntryStart">>)
    ELSE IF is_some(attr_main_fn) THEN Some(<<attr_main_fn, "EntryMain">>)
    ELSE IF is_some(main_fn) THEN Some(<<main_fn, "EntryMain">>)
    ELSE IF is_some(imported_main_fn) /\ non_main_fns = <<>>
         THEN Some(<<imported_main_fn, "EntryMain">>)
    ELSE None

\* the selection tagging the attr_main_fn candidate EntryStart
SelectedEntry_AttrTaggedStart ==
    IF is_some(start_fn) THEN Some(<<start_fn, "EntryStart">>)
    ELSE IF is_some(attr_main_fn) THEN Some(<<attr_main_fn, "EntryStart">>)
    ELSE IF is_some(main_fn) THEN Some(<<main_fn, "EntryMain">>)
    ELSE IF is_some(imported_main_fn) THEN Some(<<imported_main_fn, "EntryMain">>)
    ELSE None

\* lines 184-195: the slot written to the session and its tag, or None
SelectedEntry ==
    IF is_some(start_fn) THEN Some(<<start_fn, "EntryStart">>)
    ELSE IF is_some(attr_main_fn) THEN Some(<<attr_main_fn, "EntryMain">>)
    ELSE IF is_some(main_fn) THEN Some(<<main_fn, "EntryMain">>)
    ELSE IF is_some(imported_main_fn) THEN Some(<<imported_main_fn, "EntryMain">>)
    ELSE None

\* abort_if_errors returning although errors were recorded
abort_if_errors_Never(errs) == "done"

\* line 209: abort_if_errors after the hinted error was emitted
abort_if_errors(errs) == IF Len(errs) > 0 THEN "aborted" ELSE "done"

configure_main ==
    IF is_some(SelectedEntry)
    THEN /\ entry_fn' = unwrap(SelectedEntry)[1]
         /\ entry_type' = Some(unwrap(SelectedEntry)[2])
         /\ pc' = "done"
         /\ UNCHANGED diags
    ELSE /\ diags' = Append(diags, NotFoundErr(non_main_fns))
         /\ pc' = IF non_main_fns # <<>> THEN abort_if_errors(diags') ELSE "done"
         /\ UNCHANGED <<entry_fn, entry_type>>

\* line 91, once visit_all_items has delivered every item of the crate
ConfigureMain ==
    /\ pc = "visit"
    /\ configure_main
    /\ UNCHANGED <<crate_types, no_main, feature_enabled,
                   entry0, defined_as_main, ctxt_vars, visited, ept_args, ept_result>>

Next ==
    \/ FindEntryPointNotExe
    \/ FindEntryPointNoMain
    \/ FindEntryPointBegin
    \/ VisitItem
    \/ ConfigureMain

Spec == Init /\ [][Next]_vars

SpecGate == InitGate /\ [][Next]_vars

\* find_entry_point is straight-line synchronous code: a call that has a
\* next step takes it.
SpecLive == Init /\ [][Next]_vars /\ WF_vars(Next)

\* ------------------------------------------- entry_point_type on its own
\* One call of entry_point_type on every item, position and answer of the
\* defined_as_main closure.
InitClassify ==
    /\ ept_args \in {Some([item |-> i, at_root |-> r, dam |-> d]) :
                        i \in Items, r \in BOOLEAN, d \in BOOLEAN}
    /\ ept_result = None
    /\ crate_types = <<"CrateTypeExecutable">>
    /\ no_main = FALSE
    /\ feature_enabled = FALSE
    /\ entry0 = <<None, None>>
    /\ entry_fn = None
    /\ entry_type = None
    /\ defined_as_main = {}
    /\ main_fn = None
    /\ imported_main_fn = None
    /\ attr_main_fn = None
    /\ start_fn = None
    /\ non_main_fns = <<>>
    /\ diags = <<>>
    /\ visited = <<>>
    /\ pc = "classify"

Classify ==
    /\ pc = "classify"
    /\ ept_result' = Some(entry_point_type(unwrap(ept_args).item, unwrap(ept_args).at_root,
                                           unwrap(ept_args).dam))
    /\ pc' = "classified"
    /\ UNCHANGED <<crate_types, no_main, feature_enabled,
                   entry_fn, entry_type, entry0, defined_as_main,
                   ctxt_vars, diags, visited, ept_args>>

NextClassify == Classify

SpecClassify == InitClassify /\ [][NextClassify]_vars

\* ------------------------------------------------- what the claims speak of
ExclusiveKinds == {"Start", "MainAttr", "MainNamed", "ImportedMain"}

Executable == \E i \in 1..Len(crate_types) : crate_types[i] = "CrateTypeExecutable"

\* find_entry_point has returned (or aborted) after a full pass
PassDone == pc \in {"done", "aborted"} /\ Executable /\ ~no_main

KindsVisited == {visited[i].kind : i \in 1..Len(visited)}

PositionsOf(K) == {i \in 1..Len(visited) : visited[i].kind = K}

Count(K) == Cardinality(PositionsOf(K))

Min(S) == CHOOSE x \in S : \A y \in S : x <= y

\* the earliest visited declaration classified K, as a candidate
FirstOf(K) ==
    IF PositionsOf(K) = {} THEN <<>>
    ELSE << <<visited[Min(PositionsOf(K))].id, visited[Min(PositionsOf(K))].span>> >>

HighestKind(S) ==
    IF "Start" \in S THEN "Start"
    ELSE IF "MainAttr" \in S THEN "MainAttr"
    ELSE IF "MainNamed" \in S THEN "MainNamed"
    ELSE "ImportedMain"

DiagsWith(c) == {i \in 1..Len(diags) : diags[i].code = c}

NotFoundCount == Cardinality(DiagsWith("main function not found"))

SlotOf(K) ==
    CASE K = "Start" -> start_fn
      [] K = "MainAttr" -> attr_main_fn
      [] K = "MainNamed" -> main_fn
      [] K = "ImportedMain" -> imported_main_fn

DupCode(K) ==
    CASE K = "Start" -> "E0138"
      [] K = "MainAttr" -> "E0137"
      [] K = "MainNamed" -> "E0136"
      [] K = "ImportedMain" -> "multiple imported main functions"

\* C1: after a full pass with at least one of the four slots filled, the
\* session holds the candidate of the highest-precedence filled slot
\* (Start > MainAttribute > MainNamed > ImportedMain), tagged EntryStart for
\* the Start slot and EntryMain otherwise; the kind of the selected
\* declaration is the highest-precedence kind of the set of kinds visited,
\* whatever the order of the visit, and no not-found error was emitted.
C1_Precedence ==
    (PassDone /\ \E K \in ExclusiveKinds : SlotOf(K) # <<>>) =>
        /\ entry_fn = SlotOf(HighestKind({K \in ExclusiveKinds : SlotOf(K) # <<>>}))
        /\ entry_type = IF start_fn # <<>> THEN <<"EntryStart">> ELSE <<"EntryMain">>
        /\ entry_fn # <<>>
        /\ visited[entry_fn[1][1]].kind = HighestKind(KindsVisited)
        /\ NotFoundCount = 0

C1_Witness ==
    /\ PassDone
    /\ start_fn = <<>>
    /\ attr_main_fn # <<>>
    /\ main_fn # <<>>
    /\ imported_main_fn # <<>>
    /\ visited[3].kind = "MainAttr"
    /\ entry_fn = attr_main_fn

\* C2: a filled Start, MainAttribute or MainNamed slot is never changed
\* again; during and after the pass each of these slots holds the
\* earliest-visited declaration of its kind (or is empty); a later
\* declaration of the same kind only appends one conflict diagnostic.
C2_FirstSeenWins ==
    /\ [][\A K \in {"Start", "MainAttr", "MainNamed"} :
            /\ SlotOf(K) # <<>> => SlotOf(K)' = SlotOf(K)
            /\ (SlotOf(K) # <<>> /\ Count(K)' = Count(K) + 1) =>
                  /\ UNCHANGED ctxt_vars
                  /\ Len(diags') = Len(diags) + 1
                  /\ diags'[Len(diags')].code = DupCode(K)
                  /\ SubSeq(diags', 1, Len(diags)) = diags]_vars
    /\ [](\A K \in {"Start", "MainAttr", "MainNamed"} : SlotOf(K) = FirstOf(K))

C2_Witness ==
    /\ PassDone
    /\ Count("MainNamed") >= 2
    /\ Count("Start") >= 1
    /\ visited[1].kind = "MainNamed"
    /\ main_fn = <<<<1, [at |-> 1]>>>>

\* C3: a filled ImportedMain slot is never replaced by a later declaration
\* classified ImportedMain, so the slot holds the earliest-visited one.
C3_ImportedFirstSeenWins ==
    /\ [][imported_main_fn # <<>> => imported_main_fn' = imported_main_fn]_vars
    /\ [](imported_main_fn = FirstOf("ImportedMain"))

\* C4: for each exclusive kind K visited count >= 1 times exactly count - 1
\* duplicate diagnostics of K were emitted, and none for a kind visited at
\* most once (different kinds never conflict with each other).
C4_DuplicateCount ==
    \A K \in ExclusiveKinds :
        Cardinality(DiagsWith(DupCode(K))) = IF Count(K) >= 1 THEN Count(K) - 1 ELSE 0

\* C5: when no crate type is executable, find_entry_point returns leaving
\* entry_fn and entry_type as they were, with no diagnostic, no item
\* visited and no slot filled, also for a crate marked no_main.
C5_NotExecutable ==
    (pc # "start" /\ ~Executable) =>
        /\ pc = "done"
        /\ entry_fn = entry0[1]
        /\ entry_type = entry0[2]
        /\ diags = <<>>
        /\ visited = <<>>
        /\ \A K \in ExclusiveKinds : SlotOf(K) = <<>>
        /\ non_main_fns = <<>>

C5_Witness ==
    /\ pc = "done"
    /\ crate_types = <<"CrateTypeRlib">>
    /\ no_main
    /\ entry0 # <<<<>>, <<>>>>
    /\ entry_fn = entry0[1]
    /\ defined_as_main # {}

\* C6: for an executable crate marked no_main, find_entry_point sets
\* entry_type to Some(EntryNone) and returns: no item is visited, no
\* diagnostic is emitted and entry_fn is not written.
C6_NoMain ==
    (pc # "start" /\ Executable /\ no_main) =>
        /\ pc = "done"
        /\ entry_type = <<"EntryNone">>
        /\ entry_fn = entry0[1]
        /\ diags = <<>>
        /\ visited = <<>>
        /\ \A K \in ExclusiveKinds : SlotOf(K) = <<>>

C6_Witness ==
    /\ pc = "done"
    /\ Executable
    /\ no_main
    /\ entry0[2] = <<"EntryMain">>
    /\ entry_type = <<"EntryNone">>

\* C7: for an executable crate not marked no_main the not-found error is
\* emitted exactly when all four slots are empty after the full pass, once,
\* as the last diagnostic and never during the pass, and then entry_fn and
\* entry_type are not written.
C7_NotFoundIffEmpty ==
    /\ pc \in {"start", "visit"} => NotFoundCount = 0
    /\ PassDone =>
        /\ NotFoundCount = IF \A K \in ExclusiveKinds : SlotOf(K) = <<>> THEN 1 ELSE 0
        /\ NotFoundCount = 1 =>
              /\ diags[Len(diags)].code = "main function not found"
              /\ entry_fn = entry0[1]
              /\ entry_type = entry0[2]

C7_Witness ==
    /\ PassDone
    /\ visited = <<>>
    /\ NotFoundCount = 1
    /\ entry0[1] # <<>>

C7_WitnessFound ==
    /\ PassDone
    /\ KindsVisited = {"ImportedMain"}
    /\ NotFoundCount = 0

RECURSIVE HintsOf(_)
\* the candidates of the visited declarations classified OtherMain, in order
HintsOf(v) ==
    IF v = <<>> THEN <<>>
    ELSE IF v[1].kind = "OtherMain"
         THEN << <<v[1].id, v[1].span>> >> \o HintsOf(Tail(v))
         ELSE HintsOf(Tail(v))

\* C8: the hint list holds the location of every visited declaration
\* classified OtherMain, in visitation order, without deduplication; the
\* not-found error carries the explanation note followed by one location
\* note per hint when the list is not empty, and no note when it is empty.
C8_HintList ==
    /\ non_main_fns = HintsOf(visited)
    /\ (PassDone /\ NotFoundCount = 1) =>
          LET notes == diags[Len(diags)].notes IN
          IF Count("OtherMain") = 0 THEN notes = <<>>
          ELSE /\ Len(notes) = 1 + Count("OtherMain")
               /\ notes[1].span = <<>>
               /\ \A i \in 1..Count("OtherMain") :
                     /\ notes[i + 1].span = <<HintsOf(visited)[i][2]>>
                     /\ notes[i + 1].msg = "here is a function named 'main'"

C8_Witness ==
    /\ PassDone
    /\ NotFoundCount = 1
    /\ Count("OtherMain") = 2
    /\ visited[2].kind = "None"
    /\ Len(diags[Len(diags)].notes) = 3

\* the call under examination is of a function without the start and main
\* attributes, and has returned
PlainFnClassified ==
    /\ ept_result # <<>>
    /\ ept_args[1].item.node = "ItemFn"
    /\ ~ept_args[1].item.start
    /\ ~ept_args[1].item.main

\* C9 as stated: a function without the start or main attribute whose name
\* is not main is classified None, whatever at_root and defined_as_main say.
C9_Rule6Original ==
    (PlainFnClassified /\ ept_args[1].item.name # "main") => ept_result = <<"None">>

\* C9 as amended: such a function is classified None when defined_as_main
\* does not hold its id and ImportedMain when it does, whatever at_root is.
C9_Rule6 ==
    (PlainFnClassified /\ ept_args[1].item.name # "main") =>
        ept_result = IF ept_args[1].dam THEN <<"ImportedMain">> ELSE <<"None">>

C9_Witness ==
    /\ PlainFnClassified
    /\ ept_args[1].item.name = "foo"
    /\ ept_args[1].dam
    /\ ept_args[1].at_root
    /\ ept_result = <<"ImportedMain">>

\* C10: a function without the start or main attribute that is named main
\* is classified MainNamed at the root (whatever defined_as_main says),
\* ImportedMain off the root when defined_as_main holds its id, and
\* OtherMain off the root otherwise.
C10_Rule5 ==
    (PlainFnClassified /\ ept_args[1].item.name = "main") =>
        ept_result = IF ept_args[1].at_root THEN <<"MainNamed">>
                     ELSE IF ept_args[1].dam THEN <<"ImportedMain">>
                     ELSE <<"OtherMain">>

C10_Witness ==
    /\ PlainFnClassified
    /\ ept_args[1].item.name = "main"
    /\ ept_args[1].at_root
    /\ ept_args[1].dam
    /\ ept_result = <<"MainNamed">>

\* the call under examination has returned
Classified == ept_result # <<>>

\* C11: a function with the start attribute is classified Start, and one
\* with the main attribute and no start attribute MainAttr, whatever its
\* name, at_root and the answer of defined_as_main are.
C11_AttributePriority ==
    (Classified /\ ept_args[1].item.node = "ItemFn") =>
        /\ ept_args[1].item.start => ept_result = <<"Start">>
        /\ (ept_args[1].item.main /\ ~ept_args[1].item.start) => ept_result = <<"MainAttr">>

C11_Witness ==
    /\ Classified
    /\ ept_args[1].item.node = "ItemFn"
    /\ ept_args[1].item.start
    /\ ept_args[1].item.main
    /\ ept_args[1].item.name = "foo"
    /\ ept_args[1].dam
    /\ ~ept_args[1].at_root
    /\ ept_result = <<"Start">>

\* the bound name of the import is main: a simple import named main, or a
\* list import with an item renamed to main
BindsMain(vp) ==
    \/ vp.tag = "ViewPathSimple" /\ vp.n = "main"
    \/ vp.tag = "ViewPathList" /\ \E i \in DOMAIN vp.v : vp.v[i] = <<"main">>

\* C12 as stated: a use declaration without attributes is ImportedMain
\* exactly when it binds main and None otherwise (so for every glob), and a
\* use declaration with the start (resp. main) attribute is classified
\* Start (resp. MainAttr).
C12_ImportRuleOriginal ==
    (Classified /\ ept_args[1].item.node = "ItemUse") =>
        ept_result = IF ept_args[1].item.start THEN <<"Start">>
                     ELSE IF ept_args[1].item.main THEN <<"MainAttr">>
                     ELSE IF BindsMain(ept_args[1].item.vp) THEN <<"ImportedMain">>
                     ELSE <<"None">>

\* C12 as amended: a use declaration, whatever attributes it carries, is
\* ImportedMain exactly when it binds main and None otherwise (so for
\* every glob); it is never classified Start or MainAttr.
C12_ImportRule ==
    (Classified /\ ept_args[1].item.node = "ItemUse") =>
        ept_result = IF BindsMain(ept_args[1].item.vp) THEN <<"ImportedMain">>
                     ELSE <<"None">>

C12_Witness ==
    /\ Classified
    /\ ept_args[1].item.node = "ItemUse"
    /\ ept_args[1].item.start
    /\ ept_args[1].item.vp.tag = "ViewPathList"
    /\ Len(ept_args[1].item.vp.v) = 2
    /\ ept_args[1].item.vp.v[1] = <<"foo">>
    /\ ept_args[1].item.vp.v[2] = <<"main">>
    /\ ept_result = <<"ImportedMain">>

\* the locations a diagnostic refers to: its primary span and its labels
Refs(d) == {d.span[i] : i \in DOMAIN d.span} \cup {d.labels[i].span : i \in DOMAIN d.labels}

Rank(S, x) == Cardinality({y \in S : y <= x})

\* diagnostic i is the duplicate diagnostic of kind K raised for the
\* declaration at position p: the n-th such diagnostic belongs to the
\* (n+1)-th visited declaration of kind K
RaisedFor(K, i, p) ==
    /\ i \in DiagsWith(DupCode(K))
    /\ p \in PositionsOf(K)
    /\ Rank(PositionsOf(K), p) = Rank(DiagsWith(DupCode(K)), i) + 1

BothLocations(K) ==
    \A i \in DiagsWith(DupCode(K)) :
        \E p \in PositionsOf(K) :
            /\ RaisedFor(K, i, p)
            /\ visited[p].span \in Refs(diags[i])
            /\ FirstOf(K)[1][2] \in Refs(diags[i])

\* C13: every duplicate diagnostic of MainNamed, MainAttribute and Start
\* refers to the location of the retained first candidate of the kind and
\* to the location of the later declaration it was raised for.
C13_BothLocations ==
    \A K \in {"MainNamed", "MainAttr", "Start"} : BothLocations(K)

\* the E0137 and E0138 diagnostics do carry both locations
C13_AttrAndStartOnly ==
    \A K \in {"MainAttr", "Start"} : BothLocations(K)

\* C14: a declaration classified ImportedMain while the re-exported entry
\* point capability is not enabled gets an UnstableReexportEntry
\* diagnostic at its location; none is emitted when it is enabled.
C14_FeatureGate ==
    /\ ~feature_enabled =>
          \A p \in PositionsOf("ImportedMain") :
              \E i \in DiagsWith("UnstableReexportEntry") : diags[i].span = <<visited[p].span>>
    /\ feature_enabled => DiagsWith("UnstableReexportEntry") = {}

OtherMainSpans == {visited[p].span : p \in PositionsOf("OtherMain")}

\* C15: the step that processes a declaration classified OtherMain leaves
\* the four slots, the diagnostics and the session unchanged; and once a
\* pass with at least one filled slot is over, the outcome is the one the
\* slots alone determine and the diagnostics are the duplicate diagnostics
\* of the exclusive kinds, none of them referring to an OtherMain
\* declaration: OtherMain declarations add nothing to either.
C15_OtherMainInformational ==
    /\ [][Count("OtherMain")' = Count("OtherMain") + 1 =>
              UNCHANGED <<main_fn, imported_main_fn, attr_main_fn, start_fn,
                          diags, entry_fn, entry_type>>]_vars
    /\ []((PassDone /\ \E K \in ExclusiveKinds : SlotOf(K) # <<>>) =>
            /\ pc = "done"
            /\ entry_fn = SlotOf(HighestKind({K \in ExclusiveKinds : SlotOf(K) # <<>>}))
            /\ \A i \in DOMAIN diags :
                  /\ diags[i].code \in {"E0136", "E0137", "E0138"}
                  /\ Refs(diags[i]) \cap OtherMainSpans = {})

C15_Witness ==
    /\ PassDone
    /\ Len(visited) = 3
    /\ visited[1].kind = "ImportedMain"
    /\ visited[2].kind = "OtherMain"
    /\ visited[3].kind = "OtherMain"
    /\ entry_fn = imported_main_fn
    /\ diags = <<>>

Finished == pc \in {"done", "aborted"}

ConflictDiags == {i \in DOMAIN diags : diags[i].code \in {"E0136", "E0137", "E0138"}}

\* C16: for an executable crate not marked no_main the pass completes:
\* the declarations are processed one by one in visitation order, each
\* once; a conflict diagnostic leaves the pass running, so the next
\* declaration can still be visited; conflict diagnostics are in
\* visitation order; configure_main runs once, after the visit, and
\* nothing is visited or emitted after it; find_entry_point ends.
C16_PassCompletes ==
    /\ [](\A i \in DOMAIN visited : visited[i].id = i)
    /\ []((pc = "visit" /\ Len(visited) < MaxItems) => ENABLED VisitItem)
    /\ [](\A i, j \in ConflictDiags : i < j => diags[i].span[1].at < diags[j].span[1].at)
    /\ [](\A i \in ConflictDiags : diags[i].span[1].at <= Len(visited))
    /\ [][~Finished]_vars
    /\ [][(Finished' /\ Executable /\ ~no_main) => (pc = "visit" /\ UNCHANGED visited)]_vars
    /\ [](NotFoundCount <= 1)
    /\ (pc = "start") ~> Finished

C16_Witness ==
    /\ PassDone
    /\ Len(visited) = 3
    /\ visited[1].kind = "MainNamed"
    /\ visited[2].kind = "MainNamed"
    /\ visited[3].kind = "Start"
    /\ Len(diags) = 1
    /\ entry_fn = start_fn

\* C17: the not-found error is emitted and recorded in both branches, and
\* find_entry_point aborts exactly when it was emitted with a non-empty
\* hint list; with an empty hint list it returns normally, and no other
\* path aborts.
C17_AbortAsymmetry ==
    /\ pc = "aborted" => PassDone
    /\ PassDone =>
        /\ pc = "aborted" <=> (NotFoundCount = 1 /\ Count("OtherMain") > 0)
        /\ (\A K \in ExclusiveKinds : Count(K) = 0) =>
              /\ NotFoundCount = 1
              /\ diags # <<>>
              /\ diags[Len(diags)].code = "main function not found"
              /\ pc = IF Count("OtherMain") > 0 THEN "aborted" ELSE "done"

C17_Witness ==
    /\ pc = "aborted"
    /\ Len(visited) = 2
    /\ visited[1].kind = "None"
    /\ visited[2].kind = "OtherMain"
    /\ Len(diags) = 1

C17_WitnessNoHints ==
    /\ pc = "done"
    /\ PassDone
    /\ Len(visited) = 2
    /\ Count("None") = 2
    /\ NotFoundCount = 1

\* C18: from a session with entry_fn and entry_type unset, once
\* find_entry_point is over entry_fn is set exactly when entry_type is
\* EntryStart or EntryMain, entry_type is EntryStart exactly when entry_fn
\* is the start_fn candidate, and a set entry_fn is the id and span of a
\* visited declaration classified Start, MainAttr, MainNamed or
\* ImportedMain, duplicate diagnostics or not.
C18_OutcomeConsistency ==
    (Finished /\ entry0 = <<<<>>, <<>>>>) =>
        /\ entry_fn # <<>> <=> entry_type \in {<<"EntryStart">>, <<"EntryMain">>}
        /\ entry_type = <<"EntryStart">> <=> (entry_fn # <<>> /\ entry_fn = start_fn)
        /\ entry_fn # <<>> =>
              \E p \in DOMAIN visited :
                  /\ entry_fn = << <<visited[p].id, visited[p].span>> >>
                  /\ visited[p].kind \in ExclusiveKinds

C18_Witness ==
    /\ PassDone
    /\ entry0 = <<<<>>, <<>>>>
    /\ Len(visited) = 3
    /\ visited[1].kind = "OtherMain"
    /\ visited[2].kind = "MainAttr"
    /\ visited[3].kind = "MainAttr"
    /\ Len(diags) = 1
    /\ entry_type = <<"EntryMain">>
    /\ entry_fn = attr_main_fn

====
